---- MODULE Spec2Model ----
(***************************************************************************)
(* Virtual-memory core of the kernel: page-table entries, the three-level  *)
(* page table (os/src/mm/page_table.rs) and address spaces built from      *)
(* logical segments (os/src/mm/memory_set.rs).                             *)
(*                                                                         *)
(* Physical memory is a map from physical page number to the array of      *)
(* page-table entries stored in that page.  Sizes are scaled down: a node  *)
(* holds Fanout entries instead of 512, a page holds PAGE_SIZE bytes       *)
(* instead of 4096 and a physical page number has PPN_WIDTH bits instead   *)
(* of 44.  The bit layout of an entry (flags in bits 0..7, ppn from bit    *)
(* 10) is the one of the source.                                           *)
(***************************************************************************)
EXTENDS Integers, Sequences, FiniteSets, TLC

VARIABLES mem, free, sets, last, panicked, steps, tm

vars == <<mem, free, sets, last, panicked, steps, tm>>

\* tm is the task manager (os/src/task/mod.rs); it is NoTM where only the
\* memory subsystem is looked at
NoTM == [booted |-> FALSE]

(***************************************************************************)
(* Bounds of the model.                                                    *)
(***************************************************************************)
Fanout == 2
PAGE_SIZE == 2
PPN_WIDTH == 5
NumFrames == 24
USER_STACK_PAGES == 1
MaxSets == 2
MaxOps == 3

(***************************************************************************)
(* Program constants.                                                      *)
(***************************************************************************)
PTE_V == 1
PTE_R == 2
PTE_W == 4
PTE_X == 8
PTE_U == 16
PTE_G == 32
PTE_A == 64
PTE_D == 128
PPN_SHIFT == 10
MP_R == 2
MP_W == 4
MP_X == 8
MP_U == 16

Pow2(n) == 2 ^ n

\* the mode tag of a token and the bit it starts at (8 << 60 in the source,
\* above the 44 bits of the ppn and the 16 bits of the address-space id)
SATP_MODE == 8
SATP_MODE_SHIFT == PPN_WIDTH + 4

\* Option<T>
None == [some |-> FALSE]
Some(x) == [some |-> TRUE, v |-> x]

\* bit k (a power of two) of x, and the u8 operators | and &
Bit(x, k) == (x \div k) % 2
OrBit(a, b, k) == IF Bit(a, k) = 1 \/ Bit(b, k) = 1 THEN k ELSE 0
AndBit(a, b, k) == IF Bit(a, k) = 1 /\ Bit(b, k) = 1 THEN k ELSE 0
BitOr8(a, b) ==
    OrBit(a, b, 1) + OrBit(a, b, 2) + OrBit(a, b, 4) + OrBit(a, b, 8)
    + OrBit(a, b, 16) + OrBit(a, b, 32) + OrBit(a, b, 64) + OrBit(a, b, 128)
\* the usize operators | and &
RECURSIVE BitOr(_, _)
BitOr(a, b) ==
    IF a = 0 THEN b
    ELSE IF b = 0 THEN a
    ELSE (IF a % 2 = 1 \/ b % 2 = 1 THEN 1 ELSE 0) + 2 * BitOr(a \div 2, b \div 2)
RECURSIVE BitAnd(_, _)
BitAnd(a, b) ==
    IF a = 0 \/ b = 0 THEN 0
    ELSE (IF a % 2 = 1 /\ b % 2 = 1 THEN 1 ELSE 0) + 2 * BitAnd(a \div 2, b \div 2)
BitAnd8(a, b) ==
    AndBit(a, b, 1) + AndBit(a, b, 2) + AndBit(a, b, 4) + AndBit(a, b, 8)
    + AndBit(a, b, 16) + AndBit(a, b, 32) + AndBit(a, b, 64) + AndBit(a, b, 128)

(***************************************************************************)
(* Address arithmetic (os/src/mm/address.rs).                              *)
(***************************************************************************)
NumVpns == Fanout * Fanout * Fanout
VA_SIZE == NumVpns * PAGE_SIZE
TRAMPOLINE == VA_SIZE - PAGE_SIZE
TRAP_CONTEXT_BASE == TRAMPOLINE - PAGE_SIZE
USER_STACK_SIZE == USER_STACK_PAGES * PAGE_SIZE

VirtAddr_floor(va) == va \div PAGE_SIZE
VirtAddr_ceil(va) == (va + PAGE_SIZE - 1) \div PAGE_SIZE
VirtAddr_from_vpn(vpn) == vpn * PAGE_SIZE

\* the three level indices of a vpn, most significant first
indexes(vpn) ==
    << (vpn \div (Fanout * Fanout)) % Fanout, (vpn \div Fanout) % Fanout, vpn % Fanout >>

(***************************************************************************)
(* Frame allocator (os/src/mm/frame_allocator.rs): a pool of free frames;  *)
(* an allocated frame is zero-filled, a dropped FrameTracker returns its   *)
(* frame to the pool.                                                      *)
(***************************************************************************)
Frames == 1..NumFrames

\* a physical page is an array of PageCells cells: read as a page-table node
\* (get_pte_array) its first Fanout cells are entries, read as data
\* (get_bytes_array) its first PAGE_SIZE cells are bytes
PageCells == IF Fanout > PAGE_SIZE THEN Fanout ELSE PAGE_SIZE
ZeroNode == [i \in 0..(PageCells - 1) |-> 0]

Min(S) == CHOOSE x \in S : \A y \in S : x <= y
Max(S) == CHOOSE x \in S : \A y \in S : x >= y

\* the frames frame_alloc() may hand out next: the lowest-numbered free one
\* (which frames are free at boot varies, see InitPools)
frame_alloc(pool) == IF pool = {} THEN {} ELSE {Min(pool)}

\* the pool at boot: some frames may be in use by other parts of the kernel
InitPools == { Frames, Frames \ {1}, Frames \ {2, 3} }

\* drop of a FrameTracker
frame_dealloc(pool, ppn) == pool \cup {ppn}

(***************************************************************************)
(* PageTableEntry                                                          *)
(***************************************************************************)
PTE_new(ppn, flags) == ppn * Pow2(PPN_SHIFT) + flags
PTE_empty == 0
PTE_ppn(bits) == (bits \div Pow2(PPN_SHIFT)) % Pow2(PPN_WIDTH)
PTE_flags(bits) == bits % 256
PTE_is_valid(bits) == BitAnd8(PTE_flags(bits), PTE_V) # 0
PTE_readable(bits) == BitAnd8(PTE_flags(bits), PTE_R) # 0
PTE_writable(bits) == BitAnd8(PTE_flags(bits), PTE_W) # 0
PTE_executable(bits) == BitAnd8(PTE_flags(bits), PTE_X) # 0

(***************************************************************************)
(* PageTable.  A world w is the record [mem, free, panic, pt, area]: the   *)
(* physical memory, the allocator's pool, whether the kernel has           *)
(* panicked, the page table operated on ([root_ppn, frames]) and, for the  *)
(* MapArea methods, the segment operated on.  An operation that allocates  *)
(* yields the set of worlds it can end in, one per frame the allocator     *)
(* may return.                                                             *)
(***************************************************************************)
Panic(w) == [w EXCEPT !.panic = TRUE]

\* no segment is being operated on
NoArea == [none |-> TRUE]

\* PageTable::new, on the memory and pool of w
PageTable_new(w) ==
    IF w.free = {} THEN {Panic(w)}
    ELSE { [w EXCEPT !.free = @ \ {f},
                     !.mem[f] = ZeroNode,
                     !.pt = [root_ppn |-> f, frames |-> <<f>>]]
           : f \in frame_alloc(w.free) }

\* mutant of the loop of find_pte_create: the new node's FrameTracker is not
\* pushed onto frames
CreateLevel_untracked(w, ppn, idx) ==
    IF PTE_is_valid(w.mem[ppn][idx])
    THEN {[w |-> w, ppn |-> PTE_ppn(w.mem[ppn][idx])]}
    ELSE IF w.free = {}
    THEN {[w |-> Panic(w), ppn |-> ppn]}
    ELSE { LET w1 == [w EXCEPT !.free = @ \ {f}, !.mem[f] = ZeroNode]
               w2 == [w1 EXCEPT !.mem[ppn][idx] = PTE_new(f, PTE_V)]
           IN  [w |-> w2, ppn |-> PTE_ppn(w2.mem[ppn][idx])]
           : f \in frame_alloc(w.free) }

\* one iteration (i < 2) of the loop of find_pte_create at node ppn
CreateLevel(w, ppn, idx) ==
    IF PTE_is_valid(w.mem[ppn][idx])
    THEN {[w |-> w, ppn |-> PTE_ppn(w.mem[ppn][idx])]}
    ELSE IF w.free = {}
    THEN {[w |-> Panic(w), ppn |-> ppn]}
    ELSE { LET w1 == [w EXCEPT !.free = @ \ {f}, !.mem[f] = ZeroNode]
               w2 == [w1 EXCEPT !.mem[ppn][idx] = PTE_new(f, PTE_V),
                                !.pt.frames = Append(@, f)]
           IN  [w |-> w2, ppn |-> PTE_ppn(w2.mem[ppn][idx])]
           : f \in frame_alloc(w.free) }

\* the set of [w, loc]: loc = Some(<<node, index>>) is the &mut PageTableEntry
find_pte_create(w, vpn) ==
    LET idxs == indexes(vpn)
        l0 == CreateLevel(w, w.pt.root_ppn, idxs[1])
        l1 == UNION { IF a.w.panic THEN {a} ELSE CreateLevel(a.w, a.ppn, idxs[2])
                      : a \in l0 }
    IN  { IF b.w.panic THEN [w |-> b.w, loc |-> None]
          ELSE [w |-> b.w, loc |-> Some(<<b.ppn, idxs[3]>>)] : b \in l1 }

find_pte(w, vpn) ==
    LET idxs == indexes(vpn)
        pte0 == w.mem[w.pt.root_ppn][idxs[1]]
        ppn1 == PTE_ppn(pte0)
        pte1 == w.mem[ppn1][idxs[2]]
        ppn2 == PTE_ppn(pte1)
    IN  IF ~PTE_is_valid(pte0) THEN None
        ELSE IF ~PTE_is_valid(pte1) THEN None
        ELSE Some(<<ppn2, idxs[3]>>)

\* mutants of PageTable::map: the Valid bit is not or-ed into the flags; the
\* assertion that the entry is not yet valid is missing
PageTable_map_noV(w, vpn, ppn, flags) ==
    { IF r.w.panic THEN r.w
      ELSE LET loc == r.loc.v IN
           IF PTE_is_valid(r.w.mem[loc[1]][loc[2]]) THEN Panic(r.w)
           ELSE [r.w EXCEPT !.mem[loc[1]][loc[2]] = PTE_new(ppn, flags)]
      : r \in find_pte_create(w, vpn) }

PageTable_map_noAssert(w, vpn, ppn, flags) ==
    { IF r.w.panic THEN r.w
      ELSE LET loc == r.loc.v IN
           [r.w EXCEPT !.mem[loc[1]][loc[2]] = PTE_new(ppn, BitOr8(flags, PTE_V))]
      : r \in find_pte_create(w, vpn) }

PageTable_map(w, vpn, ppn, flags) ==
    { IF r.w.panic THEN r.w
      ELSE LET loc == r.loc.v IN
           IF PTE_is_valid(r.w.mem[loc[1]][loc[2]]) THEN Panic(r.w)
           ELSE [r.w EXCEPT !.mem[loc[1]][loc[2]] = PTE_new(ppn, BitOr8(flags, PTE_V))]
      : r \in find_pte_create(w, vpn) }

\* mutants of PageTable::unmap: only the Valid bit is cleared; the walk is the
\* creating one
PageTable_unmap_clearV(w, vpn) ==
    LET r == find_pte(w, vpn) IN
    IF ~r.some THEN Panic(w)
    ELSE IF ~PTE_is_valid(w.mem[r.v[1]][r.v[2]]) THEN Panic(w)
    ELSE [w EXCEPT !.mem[r.v[1]][r.v[2]] = @ - PTE_V]

PageTable_unmap_create(w, vpn) ==
    LET r == CHOOSE x \in find_pte_create(w, vpn) : TRUE IN
    IF ~r.loc.some THEN Panic(r.w)
    ELSE IF ~PTE_is_valid(r.w.mem[r.loc.v[1]][r.loc.v[2]]) THEN Panic(r.w)
    ELSE [r.w EXCEPT !.mem[r.loc.v[1]][r.loc.v[2]] = PTE_empty]

PageTable_unmap(w, vpn) ==
    LET r == find_pte(w, vpn) IN
    IF ~r.some THEN Panic(w)
    ELSE IF ~PTE_is_valid(w.mem[r.v[1]][r.v[2]]) THEN Panic(w)
    ELSE [w EXCEPT !.mem[r.v[1]][r.v[2]] = PTE_empty]

\* mutant of PageTable::translate: an invalid third-level entry is None
PageTable_translate_valid(w, vpn) ==
    LET r == find_pte(w, vpn) IN
    IF r.some /\ PTE_is_valid(w.mem[r.v[1]][r.v[2]])
    THEN Some(w.mem[r.v[1]][r.v[2]]) ELSE None

PageTable_translate(w, vpn) ==
    LET r == find_pte(w, vpn) IN
    IF r.some THEN Some(w.mem[r.v[1]][r.v[2]]) ELSE None

\* PageTable::token
PageTable_token(pt) == BitOr(SATP_MODE * Pow2(SATP_MODE_SHIFT), pt.root_ppn)

\* mutant of PageTable::from_token: the view owns the root frame
PageTable_from_token_owning(satp) ==
    [root_ppn |-> BitAnd(satp, Pow2(PPN_WIDTH) - 1),
     frames |-> << BitAnd(satp, Pow2(PPN_WIDTH) - 1) >>]

\* PageTable::from_token: a table that holds the root only and owns no frame
PageTable_from_token(satp) ==
    [root_ppn |-> BitAnd(satp, Pow2(PPN_WIDTH) - 1), frames |-> << >>]

(***************************************************************************)
(* MapArea: [vpn_range |-> [l, r], data_frames, map_type, map_perm];       *)
(* data_frames is the BTreeMap from vpn to the frame owned for it.         *)
(***************************************************************************)
\* the assertion of VPNRange::new(start, end)
VPNRange_ok(start, end) == start <= end

MapArea_new(start_va, end_va, map_type, map_perm) ==
    [vpn_range |-> [l |-> VirtAddr_floor(start_va), r |-> VirtAddr_ceil(end_va)],
     data_frames |-> << >>,
     map_type |-> map_type,
     map_perm |-> map_perm]

\* BTreeMap::insert and BTreeMap::remove on a function
BTreeInsert(m, k, v) == [x \in DOMAIN m \cup {k} |-> IF x = k THEN v ELSE m[x]]
BTreeRemove(m, k) == [x \in DOMAIN m \ {k} |-> m[x]]

\* mutant of map_one: a framed page is mapped to ppn = vpn, as an identical one
map_one_identical(w, vpn) ==
    IF w.area.map_type = "Identical"
    THEN PageTable_map(w, vpn, vpn, w.area.map_perm)
    ELSE IF w.free = {} THEN {Panic(w)}
    ELSE UNION { LET dropped == IF vpn \in DOMAIN w.area.data_frames
                                THEN {w.area.data_frames[vpn]} ELSE {}
                     w1 == [w EXCEPT !.free = (@ \ {f}) \cup dropped,
                                     !.mem[f] = ZeroNode,
                                     !.area.data_frames = BTreeInsert(@, vpn, f)]
                 IN  PageTable_map(w1, vpn, vpn, w.area.map_perm)
                 : f \in frame_alloc(w.free) }

\* mutant of map_one: an identical page gets a fresh frame, as a framed one
map_one_framed(w, vpn) ==
    IF w.free = {} THEN {Panic(w)}
    ELSE UNION { LET w1 == [w EXCEPT !.free = @ \ {f}, !.mem[f] = ZeroNode,
                                     !.area.data_frames =
                                         IF w.area.map_type = "Framed"
                                         THEN BTreeInsert(@, vpn, f) ELSE @]
                 IN  PageTable_map(w1, vpn, f, w.area.map_perm)
                 : f \in frame_alloc(w.free) }

map_one(w, vpn) ==
    IF w.area.map_type = "Identical"
    THEN PageTable_map(w, vpn, vpn, w.area.map_perm)
    ELSE IF w.free = {} THEN {Panic(w)}
    ELSE UNION { LET dropped == IF vpn \in DOMAIN w.area.data_frames
                                THEN {w.area.data_frames[vpn]} ELSE {}
                     w1 == [w EXCEPT !.free = (@ \ {f}) \cup dropped,
                                     !.mem[f] = ZeroNode,
                                     !.area.data_frames = BTreeInsert(@, vpn, f)]
                 IN  PageTable_map(w1, vpn, f, w.area.map_perm)
                 : f \in frame_alloc(w.free) }

\* mutant of unmap_one: the frame record is kept
unmap_one_keep(w, vpn) == PageTable_unmap(w, vpn)

unmap_one(w, vpn) ==
    LET w1 == IF w.area.map_type = "Framed" /\ vpn \in DOMAIN w.area.data_frames
              THEN [w EXCEPT !.free = frame_dealloc(@, w.area.data_frames[vpn]),
                             !.area.data_frames = BTreeRemove(@, vpn)]
              ELSE w
    IN  PageTable_unmap(w1, vpn)

\* for vpn in VPNRange::new(from, to) { self.map_one(page_table, vpn) }
RECURSIVE MapRange(_, _, _)
MapRange(ws, from, to) ==
    IF from >= to THEN ws
    ELSE MapRange(UNION { IF w.panic THEN {w} ELSE map_one(w, from) : w \in ws },
                  from + 1, to)

\* for vpn in VPNRange::new(from, to) { self.unmap_one(page_table, vpn) }
RECURSIVE UnmapRange(_, _, _)
UnmapRange(w, from, to) ==
    IF from >= to \/ w.panic THEN w
    ELSE UnmapRange(unmap_one(w, from), from + 1, to)

MapArea_map(w) == MapRange({w}, w.area.vpn_range.l, w.area.vpn_range.r)

MapArea_unmap(w) == UnmapRange(w, w.area.vpn_range.l, w.area.vpn_range.r)

\* mutant of MapArea::shrink_to: the stored range is not narrowed
MapArea_shrink_to_keep(w, new_end) ==
    IF ~VPNRange_ok(new_end, w.area.vpn_range.r) THEN Panic(w)
    ELSE LET w1 == UnmapRange(w, new_end, w.area.vpn_range.r) IN
         IF w1.panic THEN w1
         ELSE IF ~VPNRange_ok(w1.area.vpn_range.l, new_end) THEN Panic(w1)
         ELSE w1

MapArea_shrink_to(w, new_end) ==
    IF ~VPNRange_ok(new_end, w.area.vpn_range.r) THEN Panic(w)
    ELSE LET w1 == UnmapRange(w, new_end, w.area.vpn_range.r) IN
         IF w1.panic THEN w1
         ELSE IF ~VPNRange_ok(w1.area.vpn_range.l, new_end) THEN Panic(w1)
         ELSE [w1 EXCEPT !.area.vpn_range.r = new_end]

\* mutant of MapArea::append_to: the range is widened, the new pages are not
\* mapped
MapArea_append_to_nomap(w, new_end) ==
    IF ~VPNRange_ok(w.area.vpn_range.r, new_end) THEN {Panic(w)}
    ELSE IF ~VPNRange_ok(w.area.vpn_range.l, new_end) THEN {Panic(w)}
    ELSE {[w EXCEPT !.area.vpn_range.r = new_end]}

MapArea_append_to(w, new_end) ==
    IF ~VPNRange_ok(w.area.vpn_range.r, new_end) THEN {Panic(w)}
    ELSE { IF w1.panic THEN w1
           ELSE IF ~VPNRange_ok(w1.area.vpn_range.l, new_end) THEN Panic(w1)
           ELSE [w1 EXCEPT !.area.vpn_range.r = new_end]
           : w1 \in MapRange({w}, w.area.vpn_range.r, new_end) }

\* dst.copy_from_slice(src): the first n bytes of page ppn become the bytes
\* of data from position start on; a store to a page that is not memory of
\* the pool is an access fault
CopyChunk(w, ppn, data, start, n) ==
    IF n = 0 THEN w
    ELSE IF ppn \notin Frames THEN Panic(w)
    ELSE [w EXCEPT !.mem[ppn] = [off \in DOMAIN @ |->
                                   IF off < n THEN data[start + off + 1] ELSE @[off]]]

\* mutant of the loop of copy_data: every chunk goes to the first page
RECURSIVE CopyLoop_firstpage(_, _, _, _)
CopyLoop_firstpage(w, data, start, current_vpn) ==
    LET r == PageTable_translate(w, w.area.vpn_range.l)
        n == Min({Len(data), start + PAGE_SIZE}) - start
    IN  IF ~r.some THEN Panic(w)
        ELSE LET w1 == CopyChunk(w, PTE_ppn(r.v), data, start, n) IN
             IF w1.panic THEN w1
             ELSE IF start + PAGE_SIZE >= Len(data) THEN w1
             ELSE CopyLoop_firstpage(w1, data, start + PAGE_SIZE, current_vpn + 1)

\* the loop of MapArea::copy_data: the chunk of data that starts at start goes
\* to the page translate(current_vpn).unwrap().ppn()
RECURSIVE CopyLoop(_, _, _, _)
CopyLoop(w, data, start, current_vpn) ==
    LET r == PageTable_translate(w, current_vpn)
        n == Min({Len(data), start + PAGE_SIZE}) - start
    IN  IF ~r.some THEN Panic(w)
        ELSE LET w1 == CopyChunk(w, PTE_ppn(r.v), data, start, n) IN
             IF w1.panic THEN w1
             ELSE IF start + PAGE_SIZE >= Len(data) THEN w1
             ELSE CopyLoop(w1, data, start + PAGE_SIZE, current_vpn + 1)

MapArea_copy_data(w, data) ==
    IF w.area.map_type # "Framed" THEN Panic(w)
    ELSE CopyLoop(w, data, 0, w.area.vpn_range.l)

(***************************************************************************)
(* MemorySet: the page table pt and the segment list areas of the world.   *)
(***************************************************************************)
\* run F on every world of ws that has not panicked
Bind(ws, F(_)) == UNION { IF w.panic THEN {w} ELSE F(w) : w \in ws }

\* the kernel image's linker symbols and the configured end of memory
KernelLayouts ==
    { [stext |-> 0, etext |-> PAGE_SIZE,
       srodata |-> PAGE_SIZE, erodata |-> 2 * PAGE_SIZE,
       sdata |-> 2 * PAGE_SIZE, edata |-> 3 * PAGE_SIZE,
       sbss_with_stack |-> 3 * PAGE_SIZE, ebss |-> 4 * PAGE_SIZE,
       ekernel |-> 4 * PAGE_SIZE, MEMORY_END |-> 5 * PAGE_SIZE],
      [stext |-> 0, etext |-> 2 * PAGE_SIZE - 1,
       srodata |-> 2 * PAGE_SIZE, erodata |-> 3 * PAGE_SIZE - 1,
       sdata |-> 3 * PAGE_SIZE, edata |-> 3 * PAGE_SIZE + 1,
       sbss_with_stack |-> 4 * PAGE_SIZE, ebss |-> 4 * PAGE_SIZE + 1,
       ekernel |-> 5 * PAGE_SIZE, MEMORY_END |-> 7 * PAGE_SIZE] }

strampoline == 0

MemorySet_new_bare(w) == { [x EXCEPT !.areas = << >>] : x \in PageTable_new(w) }

MemorySet_push(w, map_area, data) ==
    IF ~VPNRange_ok(map_area.vpn_range.l, map_area.vpn_range.r) THEN {Panic(w)}
    ELSE { LET w2 == IF w1.panic \/ ~data.some THEN w1
                     ELSE MapArea_copy_data(w1, data.v)
           IN  IF w2.panic THEN w2
               ELSE [w2 EXCEPT !.areas = Append(@, w2.area), !.area = NoArea]
           : w1 \in MapArea_map([w EXCEPT !.area = map_area]) }

MemorySet_insert_framed_area(w, start_va, end_va, permission) ==
    MemorySet_push(w, MapArea_new(start_va, end_va, "Framed", permission), None)

MemorySet_map_trampoline(w) ==
    PageTable_map(w, VirtAddr_floor(TRAMPOLINE), VirtAddr_floor(strampoline),
                  PTE_R + PTE_X)

\* mutant of new_kernel: the code region is mapped writable as well
MemorySet_new_kernel_wtext(w, k) ==
    LET s0 == Bind(MemorySet_new_bare(w), MemorySet_map_trampoline)
        s1 == Bind(s0, LAMBDA x : MemorySet_push(x,
                 MapArea_new(k.stext, k.etext, "Identical", MP_R + MP_W + MP_X), None))
        s2 == Bind(s1, LAMBDA x : MemorySet_push(x,
                 MapArea_new(k.srodata, k.erodata, "Identical", MP_R), None))
        s3 == Bind(s2, LAMBDA x : MemorySet_push(x,
                 MapArea_new(k.sdata, k.edata, "Identical", MP_R + MP_W), None))
        s4 == Bind(s3, LAMBDA x : MemorySet_push(x,
                 MapArea_new(k.sbss_with_stack, k.ebss, "Identical", MP_R + MP_W), None))
    IN  Bind(s4, LAMBDA x : MemorySet_push(x,
                 MapArea_new(k.ekernel, k.MEMORY_END, "Identical", MP_R + MP_W), None))

MemorySet_new_kernel(w, k) ==
    LET s0 == Bind(MemorySet_new_bare(w), MemorySet_map_trampoline)
        s1 == Bind(s0, LAMBDA x : MemorySet_push(x,
                 MapArea_new(k.stext, k.etext, "Identical", MP_R + MP_X), None))
        s2 == Bind(s1, LAMBDA x : MemorySet_push(x,
                 MapArea_new(k.srodata, k.erodata, "Identical", MP_R), None))
        s3 == Bind(s2, LAMBDA x : MemorySet_push(x,
                 MapArea_new(k.sdata, k.edata, "Identical", MP_R + MP_W), None))
        s4 == Bind(s3, LAMBDA x : MemorySet_push(x,
                 MapArea_new(k.sbss_with_stack, k.ebss, "Identical", MP_R + MP_W), None))
    IN  Bind(s4, LAMBDA x : MemorySet_push(x,
                 MapArea_new(k.ekernel, k.MEMORY_END, "Identical", MP_R + MP_W), None))

\* An executable image: magic_ok, entry, the bytes input of the file and the
\* program headers phs, each [load, offset, va, mem_size, file_size, r, w, x].
\* mutant of the permissions of a header: the User bit is left out
ph_perm_noU(ph) ==
    (IF ph.r THEN MP_R ELSE 0) + (IF ph.w THEN MP_W ELSE 0)
    + (IF ph.x THEN MP_X ELSE 0)

\* map_perm of the segment of header ph
ph_perm(ph) ==
    MP_U + (IF ph.r THEN MP_R ELSE 0) + (IF ph.w THEN MP_W ELSE 0)
         + (IF ph.x THEN MP_X ELSE 0)

\* the body of the loop over the program headers, for header ph
LoadHeader(w, ph, input) ==
    IF ~ph.load THEN {w}
    ELSE LET map_area == MapArea_new(ph.va, ph.va + ph.mem_size, "Framed", ph_perm(ph))
         IN  IF ph.offset + ph.file_size > Len(input) THEN {Panic(w)}
             ELSE MemorySet_push([w EXCEPT !.max_end_vpn = map_area.vpn_range.r],
                      map_area,
                      Some(SubSeq(input, ph.offset + 1, ph.offset + ph.file_size)))

RECURSIVE LoadHeaders(_, _, _, _)
LoadHeaders(ws, phs, input, i) ==
    IF i > Len(phs) THEN ws
    ELSE LoadHeaders(Bind(ws, LAMBDA x : LoadHeader(x, phs[i], input)),
                     phs, input, i + 1)

\* user_stack_bottom: the address of max_end_vpn plus the guard page
UserStackBottom(max_end_vpn) == VirtAddr_from_vpn(max_end_vpn) + PAGE_SIZE

\* mutant of from_elf: the trap context is mapped user-accessible
MemorySet_from_elf_utrap(w, elf) ==
    LET s0 == Bind(MemorySet_new_bare(w), MemorySet_map_trampoline)
        s1 == Bind(s0, LAMBDA x : IF elf.magic_ok
                                  THEN {[x EXCEPT !.max_end_vpn = 0]}
                                  ELSE {Panic(x)})
        s2 == LoadHeaders(s1, elf.phs, elf.input, 1)
        s3 == Bind(s2, LAMBDA x :
                LET user_stack_bottom == UserStackBottom(x.max_end_vpn)
                    user_stack_top == user_stack_bottom + USER_STACK_SIZE
                IN  MemorySet_push([x EXCEPT !.user_sp = user_stack_top],
                        MapArea_new(user_stack_bottom, user_stack_top, "Framed",
                                    MP_R + MP_W + MP_U), None))
        s4 == Bind(s3, LAMBDA x : MemorySet_push(x,
                        MapArea_new(x.user_sp, x.user_sp, "Framed",
                                    MP_R + MP_W + MP_U), None))
        s5 == Bind(s4, LAMBDA x : MemorySet_push(x,
                        MapArea_new(TRAP_CONTEXT_BASE, TRAMPOLINE, "Framed",
                                    MP_R + MP_W + MP_U), None))
    IN  { [x EXCEPT !.entry = elf.entry] : x \in s5 }

\* the worlds from_elf can end in; user_sp and entry are the values returned
MemorySet_from_elf(w, elf) ==
    LET s0 == Bind(MemorySet_new_bare(w), MemorySet_map_trampoline)
        s1 == Bind(s0, LAMBDA x : IF elf.magic_ok
                                  THEN {[x EXCEPT !.max_end_vpn = 0]}
                                  ELSE {Panic(x)})
        s2 == LoadHeaders(s1, elf.phs, elf.input, 1)
        s3 == Bind(s2, LAMBDA x :
                LET user_stack_bottom == UserStackBottom(x.max_end_vpn)
                    user_stack_top == user_stack_bottom + USER_STACK_SIZE
                IN  MemorySet_push([x EXCEPT !.user_sp = user_stack_top],
                        MapArea_new(user_stack_bottom, user_stack_top, "Framed",
                                    MP_R + MP_W + MP_U), None))
        s4 == Bind(s3, LAMBDA x : MemorySet_push(x,
                        MapArea_new(x.user_sp, x.user_sp, "Framed",
                                    MP_R + MP_W + MP_U), None))
        s5 == Bind(s4, LAMBDA x : MemorySet_push(x,
                        MapArea_new(TRAP_CONTEXT_BASE, TRAMPOLINE, "Framed",
                                    MP_R + MP_W), None))
    IN  { [x EXCEPT !.entry = elf.entry] : x \in s5 }

MemorySet_translate(w, vpn) == PageTable_translate(w, vpn)

\* mutant of the lookup: the first segment that contains vpn or starts at it
FindArea_containing(areas, vpn) ==
    LET hit == { k \in 1..Len(areas) :
                   areas[k].vpn_range.l <= vpn /\ vpn <= areas[k].vpn_range.r }
    IN  IF hit = {} THEN 0 ELSE Min(hit)

\* the position in areas of the first segment that starts at vpn, or 0
FindArea(areas, vpn) ==
    IF \E k \in 1..Len(areas) : areas[k].vpn_range.l = vpn
    THEN Min({k \in 1..Len(areas) : areas[k].vpn_range.l = vpn})
    ELSE 0

\* mutant of MemorySet::shrink_to: a start that matches no segment is fatal
MemorySet_shrink_to_fatal(w, start, new_end) ==
    LET k == FindArea(w.areas, VirtAddr_floor(start)) IN
    IF k = 0 THEN [w |-> Panic(w), ret |-> FALSE]
    ELSE LET w1 == MapArea_shrink_to([w EXCEPT !.area = w.areas[k]],
                                     VirtAddr_ceil(new_end))
         IN  [w |-> IF w1.panic THEN w1
                    ELSE [w1 EXCEPT !.areas[k] = w1.area, !.area = NoArea],
              ret |-> TRUE]

\* shrink_to and append_to: the world reached and the value returned
MemorySet_shrink_to(w, start, new_end) ==
    LET k == FindArea(w.areas, VirtAddr_floor(start)) IN
    IF k = 0 THEN [w |-> w, ret |-> FALSE]
    ELSE LET w1 == MapArea_shrink_to([w EXCEPT !.area = w.areas[k]],
                                     VirtAddr_ceil(new_end))
         IN  [w |-> IF w1.panic THEN w1
                    ELSE [w1 EXCEPT !.areas[k] = w1.area, !.area = NoArea],
              ret |-> TRUE]

MemorySet_append_to(w, start, new_end) ==
    LET k == FindArea(w.areas, VirtAddr_floor(start)) IN
    IF k = 0 THEN {[w |-> w, ret |-> FALSE]}
    ELSE { [w |-> IF w1.panic THEN w1
                  ELSE [w1 EXCEPT !.areas[k] = w1.area, !.area = NoArea],
            ret |-> TRUE]
           : w1 \in MapArea_append_to([w EXCEPT !.area = w.areas[k]],
                                      VirtAddr_ceil(new_end)) }

\* drop of a Vec<FrameTracker>, from position n on
RECURSIVE DropFrames(_, _, _)
DropFrames(pool, frames, n) ==
    IF n > Len(frames) THEN pool
    ELSE DropFrames(frame_dealloc(pool, frames[n]), frames, n + 1)

\* drop of a BTreeMap<VirtPageNum, FrameTracker>
RECURSIVE DropDataFrames(_, _)
DropDataFrames(pool, data_frames) ==
    IF DOMAIN data_frames = {} THEN pool
    ELSE LET vpn == Min(DOMAIN data_frames) IN
         DropDataFrames(frame_dealloc(pool, data_frames[vpn]),
                        BTreeRemove(data_frames, vpn))

\* drop of a Vec<MapArea>, from position k on
RECURSIVE DropAreas(_, _, _)
DropAreas(pool, areas, k) ==
    IF k > Len(areas) THEN pool
    ELSE DropAreas(DropDataFrames(pool, areas[k].data_frames), areas, k + 1)

\* mutant of the drop of a MemorySet: the segments' frames are not released
MemorySet_drop_tableonly(w) ==
    [w EXCEPT !.free = DropFrames(w.free, w.pt.frames, 1),
              !.pt = [root_ppn |-> 0, frames |-> << >>],
              !.areas = << >>]

\* drop of a MemorySet: its fields page_table and areas are dropped, and with
\* them every FrameTracker they hold
MemorySet_drop(w) ==
    [w EXCEPT !.free = DropAreas(DropFrames(w.free, w.pt.frames, 1), w.areas, 1),
              !.pt = [root_ppn |-> 0, frames |-> << >>],
              !.areas = << >>]

(***************************************************************************)
(* State.  sets[i] is an address space (MemorySet) or NoSet; a bare        *)
(* PageTable is an address space without segments.                         *)
(***************************************************************************)
NoSet == [live |-> FALSE]
SetIds == 1..MaxSets

\* the world of address space i, and the world before one is constructed
World(i) ==
    [mem |-> mem, free |-> free, panic |-> FALSE, pt |-> sets[i].page_table,
     areas |-> sets[i].areas, area |-> NoArea,
     max_end_vpn |-> 0, user_sp |-> 0, entry |-> 0]

BootWorld ==
    [mem |-> mem, free |-> free, panic |-> FALSE,
     pt |-> [root_ppn |-> 0, frames |-> << >>],
     areas |-> << >>, area |-> NoArea,
     max_end_vpn |-> 0, user_sp |-> 0, entry |-> 0]

\* inputs of the page-table operations
PTMapVpns == {0, 1, Fanout}
PTVpns == PTMapVpns \cup {NumVpns - 1}
PTMapArgs ==
    { <<3, PTE_R + PTE_X>>, <<Pow2(PPN_WIDTH) - 1, PTE_R + PTE_W + PTE_U + PTE_A>>,
      <<0, 0>> }

\* a PageTable after PageTable::new()
InitPT ==
    /\ \E pool \in InitPools : \E f \in frame_alloc(pool) :
          /\ mem = [p \in Frames |-> ZeroNode]
          /\ free = pool \ {f}
          /\ sets = [i \in SetIds |->
                       IF i = 1
                       THEN [live |-> TRUE, kind |-> "bare",
                             page_table |-> [root_ppn |-> f, frames |-> <<f>>],
                             areas |-> << >>]
                       ELSE NoSet]
    /\ panicked = FALSE
    /\ last = [op |-> "new"]
    /\ steps = 0
    /\ tm = NoTM

CommitPT(w) ==
    /\ UNCHANGED <<steps, tm>>
    /\ mem' = w.mem
    /\ free' = w.free
    /\ panicked' = w.panic
    /\ sets' = [sets EXCEPT ![1].page_table = w.pt]

PTMap(vpn, ppn, flags) ==
    /\ ~panicked
    /\ \E w \in PageTable_map(World(1), vpn, ppn, flags) : CommitPT(w)
    /\ last' = [op |-> "map", vpn |-> vpn, ppn |-> ppn, flags |-> flags]

PTUnmap(vpn) ==
    /\ ~panicked
    /\ CommitPT(PageTable_unmap(World(1), vpn))
    /\ last' = [op |-> "unmap", vpn |-> vpn]

PTTranslate(vpn) ==
    /\ ~panicked
    /\ last' = [op |-> "translate", vpn |-> vpn,
                res |-> PageTable_translate(World(1), vpn)]
    /\ UNCHANGED <<mem, free, sets, panicked, steps, tm>>

\* a view is built from the token of the table, vpn is translated through it
\* and the view is dropped
PTView(vpn) ==
    /\ ~panicked
    /\ LET view == PageTable_from_token(PageTable_token(sets[1].page_table))
           w == [World(1) EXCEPT !.pt = view]
       IN  /\ last' = [op |-> "view", vpn |-> vpn,
                       res |-> PageTable_translate(w, vpn)]
           /\ free' = DropFrames(w.free, view.frames, 1)
    /\ UNCHANGED <<mem, sets, panicked, steps, tm>>

NextPT ==
    \/ \E vpn \in PTMapVpns, a \in PTMapArgs : PTMap(vpn, a[1], a[2])
    \/ \E vpn \in PTVpns : PTUnmap(vpn)
    \/ \E vpn \in PTVpns : PTTranslate(vpn)
    \/ \E vpn \in PTVpns : PTView(vpn)

SpecPT == InitPT /\ [][NextPT]_vars

(***************************************************************************)
(* Address spaces: construction for the kernel and from an executable      *)
(* image, insertion of a framed segment, shrink_to and append_to.          *)
(***************************************************************************)
MaxArgPage == 8

Ph(offset, va, mem_size, file_size, r, w, x) ==
    [load |-> TRUE, offset |-> offset, va |-> va, mem_size |-> mem_size,
     file_size |-> file_size, r |-> r, w |-> w, x |-> x]

\* the bytes of an image file: the byte at offset p is 16 + p
Input == [p \in 1..(3 * PAGE_SIZE) |-> 15 + p]

\* one code page
Elf_one ==
    [magic_ok |-> TRUE, entry |-> 0, input |-> Input,
     phs |-> << Ph(0, 0, PAGE_SIZE, PAGE_SIZE, TRUE, FALSE, TRUE) >>]
\* a code page and two data pages, ascending; the data fill one page and the
\* first byte of the next
Elf_ordered ==
    [magic_ok |-> TRUE, entry |-> 1, input |-> Input,
     phs |-> << Ph(0, 0, PAGE_SIZE, PAGE_SIZE, TRUE, FALSE, TRUE),
                Ph(PAGE_SIZE, PAGE_SIZE, PAGE_SIZE + 1, PAGE_SIZE + 1,
                   TRUE, TRUE, FALSE) >>]
\* the data page listed before the code page right below it
Elf_descending ==
    [magic_ok |-> TRUE, entry |-> 0, input |-> Input,
     phs |-> << Ph(PAGE_SIZE, PAGE_SIZE, PAGE_SIZE, PAGE_SIZE, TRUE, TRUE, FALSE),
                Ph(0, 0, PAGE_SIZE, PAGE_SIZE, TRUE, FALSE, TRUE) >>]
\* the data page listed first and three pages above the code page; one byte
\* of it is in the file; it is writable only
Elf_descending_apart ==
    [magic_ok |-> TRUE, entry |-> 0, input |-> Input,
     phs |-> << Ph(PAGE_SIZE, 4 * PAGE_SIZE, PAGE_SIZE, 1, FALSE, TRUE, FALSE),
                Ph(0, 0, PAGE_SIZE, PAGE_SIZE, TRUE, FALSE, TRUE) >>]
\* a header that is not loadable only
Elf_noload ==
    [magic_ok |-> TRUE, entry |-> 0, input |-> Input,
     phs |-> << [load |-> FALSE, offset |-> 0, va |-> 0, mem_size |-> PAGE_SIZE,
                 file_size |-> 0, r |-> TRUE, w |-> FALSE, x |-> FALSE] >>]
\* a segment that starts inside a page
Elf_unaligned ==
    [magic_ok |-> TRUE, entry |-> 1, input |-> Input,
     phs |-> << Ph(1, 1, PAGE_SIZE, PAGE_SIZE, TRUE, TRUE, TRUE) >>]
\* a loadable header of size zero
Elf_empty_segment ==
    [magic_ok |-> TRUE, entry |-> 0, input |-> Input,
     phs |-> << Ph(0, 0, 0, 0, TRUE, FALSE, FALSE) >>]
Elf_badmagic ==
    [magic_ok |-> FALSE, entry |-> 0, input |-> Input,
     phs |-> << Ph(0, 0, PAGE_SIZE, PAGE_SIZE, TRUE, FALSE, TRUE) >>]

ElfImages ==
    { Elf_one, Elf_ordered, Elf_descending, Elf_descending_apart, Elf_noload,
      Elf_unaligned, Elf_empty_segment, Elf_badmagic }

ArgVAs == { v * PAGE_SIZE : v \in 0..MaxArgPage } \cup { PAGE_SIZE + 1 }

FramedAreaArgs ==
    { << 3 * PAGE_SIZE, 4 * PAGE_SIZE, MP_R + MP_W + MP_U >>,
      << 4 * PAGE_SIZE + 1, 5 * PAGE_SIZE + 1, MP_R >>,
      << 5 * PAGE_SIZE, 5 * PAGE_SIZE, MP_R + MP_W + MP_U >> }

Init ==
    /\ mem = [p \in Frames |-> ZeroNode]
    /\ free \in InitPools
    /\ sets = [i \in SetIds |-> NoSet]
    /\ panicked = FALSE
    /\ last = [op |-> "boot", set |-> 0, ret |-> TRUE]
    /\ steps = 0
    /\ tm = NoTM

\* the outcome w of an operation on address space i; a panic halts the kernel
Commit(i, w, s) ==
    /\ steps' = steps + 1
    /\ UNCHANGED tm
    /\ IF w.panic
       THEN panicked' = TRUE /\ UNCHANGED <<mem, free, sets>>
       ELSE /\ mem' = w.mem
            /\ free' = w.free
            /\ panicked' = FALSE
            /\ sets' = [sets EXCEPT ![i] = [s EXCEPT !.page_table = w.pt,
                                                     !.areas = w.areas]]

NewSet(kind, elf, w) ==
    [live |-> TRUE, kind |-> kind, elf |-> elf, user_sp |-> w.user_sp,
     entry |-> w.entry, page_table |-> w.pt, areas |-> w.areas]

NewKernel(i, k) ==
    /\ ~panicked /\ steps < MaxOps /\ ~sets[i].live
    /\ \A j \in SetIds : sets[j].live => sets[j].kind # "kernel"
    /\ \E w \in MemorySet_new_kernel(BootWorld, k) :
          Commit(i, w, NewSet("kernel", k, w))
    /\ last' = [op |-> "new_kernel", set |-> i, ret |-> TRUE]

FromElf(i, elf) ==
    /\ ~panicked /\ steps < MaxOps /\ ~sets[i].live
    /\ \E w \in MemorySet_from_elf(BootWorld, elf) :
          Commit(i, w, NewSet("elf", elf, w))
    /\ last' = [op |-> "from_elf", set |-> i, ret |-> TRUE]

InsertFramedArea(i, start_va, end_va, perm) ==
    /\ ~panicked /\ steps < MaxOps /\ sets[i].live
    /\ \E w \in MemorySet_insert_framed_area(World(i), start_va, end_va, perm) :
          Commit(i, w, sets[i])
    /\ last' = [op |-> "insert_framed_area", set |-> i, ret |-> TRUE]

ShrinkTo(i, start, new_end) ==
    /\ ~panicked /\ steps < MaxOps /\ sets[i].live
    /\ LET r == MemorySet_shrink_to(World(i), start, new_end) IN
          /\ Commit(i, r.w, sets[i])
          /\ last' = [op |-> "shrink_to", set |-> i, ret |-> r.ret]

AppendTo(i, start, new_end) ==
    /\ ~panicked /\ steps < MaxOps /\ sets[i].live
    /\ \E r \in MemorySet_append_to(World(i), start, new_end) :
          /\ Commit(i, r.w, sets[i])
          /\ last' = [op |-> "append_to", set |-> i, ret |-> r.ret]

\* the address space goes out of scope
DropSet(i) ==
    /\ ~panicked /\ steps < MaxOps /\ sets[i].live
    /\ LET w == MemorySet_drop(World(i)) IN
          /\ mem' = w.mem
          /\ free' = w.free
          /\ sets' = [sets EXCEPT ![i] = NoSet]
    /\ steps' = steps + 1
    /\ UNCHANGED <<panicked, tm>>
    /\ last' = [op |-> "drop", set |-> i, ret |-> TRUE]

Next ==
    \/ \E i \in SetIds, k \in KernelLayouts : NewKernel(i, k)
    \/ \E i \in SetIds, elf \in ElfImages : FromElf(i, elf)
    \/ \E i \in SetIds, a \in FramedAreaArgs : InsertFramedArea(i, a[1], a[2], a[3])
    \/ \E i \in SetIds, start \in ArgVAs, new_end \in ArgVAs : ShrinkTo(i, start, new_end)
    \/ \E i \in SetIds, start \in ArgVAs, new_end \in ArgVAs : AppendTo(i, start, new_end)
    \/ \E i \in SetIds : DropSet(i)

Spec == Init /\ [][Next]_vars

(***************************************************************************)
(* Properties of the page table (checked under SpecPT).                    *)
(***************************************************************************)
PermBits(flags) == BitAnd8(flags, PTE_R + PTE_W + PTE_X + PTE_U)

\* C1: after PageTable::map(vpn, ppn, P) returns, translate(vpn) yields an entry
\* whose Valid bit is set, whose ppn is the mapped ppn and whose R/W/X/U bits
\* are exactly those of P.
C1_MapTranslateRoundTrip ==
    (last.op = "map" /\ ~panicked) =>
        LET r == PageTable_translate(World(1), last.vpn) IN
        /\ r.some
        /\ PTE_is_valid(r.v)
        /\ PTE_ppn(r.v) = last.ppn
        /\ PermBits(PTE_flags(r.v)) = PermBits(last.flags)

C1_Witness ==
    /\ last.op = "map" /\ ~panicked
    /\ last.vpn = 1 /\ last.ppn = Pow2(PPN_WIDTH) - 1
    /\ PageTable_translate(World(1), 0).some
    /\ PTE_is_valid(PageTable_translate(World(1), 0).v)

\* C2 as stated: after unmap(vpn) of a mapped vpn, translate(vpn) is None.
C2_UnmapTranslateNone ==
    (last.op = "unmap" /\ ~panicked) =>
        PageTable_translate(World(1), last.vpn) = None

\* C2 amended: after unmap(vpn) of a mapped vpn, translate(vpn) returns the
\* empty (all-zero) entry, whose Valid bit is clear; it does not return None,
\* because unmap leaves the intermediate nodes in place.
C2_UnmapTranslateEmpty ==
    (last.op = "unmap" /\ ~panicked) =>
        LET r == PageTable_translate(World(1), last.vpn) IN
        r.some /\ r.v = PTE_empty /\ ~PTE_is_valid(r.v)

C2_Witness ==
    /\ last.op = "unmap" /\ ~panicked /\ last.vpn = 0
    /\ PageTable_translate(World(1), 1).some
    /\ PTE_is_valid(PageTable_translate(World(1), 1).v)

\* C8: PageTable::map on a vpn whose leaf entry is already valid panics and
\* leaves the entry (and all of memory) as it was.
C8_MapTwiceFaults ==
    [][ (/\ last'.op = "map"
         /\ PageTable_translate(World(1), last'.vpn).some
         /\ PTE_is_valid(PageTable_translate(World(1), last'.vpn).v))
        => (/\ panicked'
            /\ mem' = mem
            /\ PageTable_translate([World(1) EXCEPT !.mem = mem'], last'.vpn)
                 = PageTable_translate(World(1), last'.vpn)) ]_vars

C8_Witness ==
    /\ panicked /\ last.op = "map" /\ last.flags = 0
    /\ PageTable_translate(World(1), last.vpn).some
    /\ PTE_readable(PageTable_translate(World(1), last.vpn).v)

\* C9: PageTable::unmap(vpn) allocates nothing; it panics when a first- or
\* second-level entry on the path is invalid or the leaf entry is invalid, and
\* otherwise zeroes exactly the leaf entry of vpn and changes no other entry.
C9_UnmapEffect ==
    [][ last'.op = "unmap" =>
        /\ free' = free
        /\ sets'[1].page_table = sets[1].page_table
        /\ LET idxs == indexes(last'.vpn)
               e0 == mem[sets[1].page_table.root_ppn][idxs[1]]
               e1 == mem[PTE_ppn(e0)][idxs[2]]
               leaf == PTE_ppn(e1)
           IN  IF \/ ~PTE_is_valid(e0)
                  \/ ~PTE_is_valid(e1)
                  \/ ~PTE_is_valid(mem[leaf][idxs[3]])
               THEN panicked' /\ mem' = mem
               ELSE ~panicked' /\ mem' = [mem EXCEPT ![leaf][idxs[3]] = 0] ]_vars

C9_Witness ==
    /\ last.op = "unmap" /\ ~panicked /\ last.vpn = 1
    /\ PageTable_translate(World(1), 0).some
    /\ PTE_is_valid(PageTable_translate(World(1), 0).v)
    /\ PageTable_translate(World(1), 1) = Some(PTE_empty)

(***************************************************************************)
(* Properties of address spaces (checked under Spec).                      *)
(***************************************************************************)
Vpns == 0..(NumVpns - 1)
LiveSets == { i \in SetIds : sets[i].live }
ElfSets == { i \in LiveSets : sets[i].kind = "elf" }
AreaVpns(a) == a.vpn_range.l .. (a.vpn_range.r - 1)
AreaIdx(i) == 1..Len(sets[i].areas)

ValidAt(i, vpn) ==
    LET r == MemorySet_translate(World(i), vpn) IN r.some /\ PTE_is_valid(r.v)

\* the end of the highest page touched by a loadable header of the image
HighestEndVpn(elf) ==
    LET ends == { VirtAddr_ceil(elf.phs[k].va + elf.phs[k].mem_size)
                  : k \in { j \in 1..Len(elf.phs) : elf.phs[j].load } }
    IN  IF ends = {} THEN 0 ELSE Max(ends)

NumLoad(elf) == Cardinality({ j \in 1..Len(elf.phs) : elf.phs[j].load })

\* the user stack of an address space built by from_elf
StackArea(i) == sets[i].areas[NumLoad(sets[i].elf) + 1]

\* C3 as stated: in an address space built from an image, the page right
\* above the highest loaded segment, which is the page right below the user
\* stack, never has a valid entry.
C3_GuardPageNeverValid ==
    \A i \in ElfSets :
        /\ StackArea(i).vpn_range.l = HighestEndVpn(sets[i].elf) + 1
        /\ ~ValidAt(i, HighestEndVpn(sets[i].elf))

\* C4 as stated: from_elf puts the bottom of the user stack one page above
\* the highest page of any loadable segment and returns that bottom plus
\* USER_STACK_SIZE.
C4_StackAboveHighestSegment ==
    (last.op = "from_elf" /\ ~panicked) =>
        LET i == last.set
            bottom == VirtAddr_from_vpn(HighestEndVpn(sets[i].elf)) + PAGE_SIZE
        IN  /\ VirtAddr_from_vpn(StackArea(i).vpn_range.l) = bottom
            /\ sets[i].user_sp = bottom + USER_STACK_SIZE

\* the frames a segment holds are one per page of its range
OneFramePerPage(a) ==
    a.map_type = "Framed" =>
        /\ DOMAIN a.data_frames = AreaVpns(a)
        /\ \A u, v \in DOMAIN a.data_frames :
              u # v => a.data_frames[u] # a.data_frames[v]
        /\ \A v \in DOMAIN a.data_frames : a.data_frames[v] \notin free

\* a page that leaves a segment in this step has its frame in the pool after it
RemovedFramesFreed ==
    \A i \in SetIds :
        (sets[i].live /\ sets'[i].live) =>
            \A k \in 1..Len(sets[i].areas) :
                \A v \in DOMAIN sets[i].areas[k].data_frames :
                    v \notin DOMAIN sets'[i].areas[k].data_frames
                        => sets[i].areas[k].data_frames[v] \in free'

C6_MappedIffInSegment ==
    \A i \in LiveSets : \A vpn \in Vpns :
        ValidAt(i, vpn) <=>
            \/ vpn = VirtAddr_floor(TRAMPOLINE)
            \/ \E k \in AreaIdx(i) : vpn \in AreaVpns(sets[i].areas[k])

C6_Witness ==
    /\ ~panicked /\ last.op = "shrink_to" /\ last.ret
    /\ \E i \in ElfSets :
          /\ Len(sets[i].areas) = NumLoad(sets[i].elf) + 4
          /\ AreaVpns(StackArea(i)) = {}
          /\ ~ValidAt(i, StackArea(i).vpn_range.l)

\* the frame-backed pages <<set, vpn>> and the physical page behind each
FramedPages ==
    UNION { UNION { { <<i, v>> : v \in AreaVpns(sets[i].areas[k]) }
                    : k \in { j \in AreaIdx(i) : sets[i].areas[j].map_type = "Framed" } }
            : i \in LiveSets }
BackingPpn(p) == PTE_ppn(MemorySet_translate(World(p[1]), p[2]).v)
NodeFrames ==
    UNION { { sets[i].page_table.frames[n] : n \in 1..Len(sets[i].page_table.frames) }
            : i \in LiveSets }

\* C7: two distinct frame-backed pages, of one or of two address spaces, are
\* never backed by the same physical page, and no backing page is a
\* page-table node or free.
C7_NoAliasing ==
    LET backing == { BackingPpn(p) : p \in FramedPages } IN
    /\ Cardinality(backing) = Cardinality(FramedPages)
    /\ backing \cap (NodeFrames \cup free) = {}

C7_Witness ==
    /\ ~panicked /\ last.op = "from_elf"
    /\ Cardinality(ElfSets) = 2
    /\ \E i \in ElfSets : AreaVpns(StackArea(i)) = {}
    /\ \E p, q \in FramedPages : p[1] # q[1] /\ p[2] = q[2]

\* C10: every page of an identity-mapped segment translates to a valid entry
\* whose ppn equals the vpn.
C10_IdentityMapping ==
    \A i \in LiveSets : \A k \in AreaIdx(i) :
        sets[i].areas[k].map_type = "Identical" =>
            \A vpn \in AreaVpns(sets[i].areas[k]) :
                /\ ValidAt(i, vpn)
                /\ PTE_ppn(MemorySet_translate(World(i), vpn).v) = vpn

C10_Witness ==
    /\ ~panicked /\ last.op = "append_to" /\ last.ret
    /\ \E i \in LiveSets :
          /\ sets[i].kind = "kernel"
          /\ Cardinality(AreaVpns(sets[i].areas[5])) = 2
          /\ AreaVpns(sets[i].areas[1]) = {}

(***************************************************************************)
(* Shrinking and growing a segment.                                        *)
(***************************************************************************)
\* an Option<PageTableEntry> reduced to the bits V, R, W, X and U (bits 0..4)
\* of a valid entry; 0 if there is no valid entry
Mapping(r) ==
    IF r.some THEN (IF r.v % 2 = 1 THEN r.v % (2 * PTE_U) ELSE 0) ELSE 0

\* what every vpn translates to in world w
TranslateAll(w) == [vpn \in Vpns |-> MemorySet_translate(w, vpn)]

\* the worlds reached by shrink_to(s, E) followed by append_to(s, e), where
\* [s, e) is the range of segment k of address space i
ShrinkThenAppend(i, k, E) ==
    LET a == sets[i].areas[k]
        s == VirtAddr_from_vpn(a.vpn_range.l)
        r1 == MemorySet_shrink_to(World(i), s, VirtAddr_from_vpn(E))
    IN  IF r1.w.panic \/ ~r1.ret THEN {r1}
        ELSE MemorySet_append_to(r1.w, s, VirtAddr_from_vpn(a.vpn_range.r))

\* both calls return true, the valid vpns and their permission bits are as
\* in before (what every vpn translated to before the calls), and the entries
\* and ranges of the other segments are untouched
Restored(i, k, E, before) ==
    \A r2 \in ShrinkThenAppend(i, k, E) :
        /\ ~r2.w.panic /\ r2.ret
        /\ LET after == TranslateAll(r2.w) IN
           \A vpn \in Vpns :
              IF vpn \in AreaVpns(sets[i].areas[k])
              THEN Mapping(after[vpn]) = Mapping(before[vpn])
              ELSE after[vpn] = before[vpn]
        /\ Len(r2.w.areas) = Len(sets[i].areas)
        /\ r2.w.areas[k].vpn_range = sets[i].areas[k].vpn_range
        /\ \A j \in AreaIdx(i) \ {k} : r2.w.areas[j] = sets[i].areas[j]

\* C11 as stated: for every segment [s, e) of an address space and every E
\* with s <= E <= e, shrink_to(s, E) followed by append_to(s, e) restores the
\* valid vpns and their permission bits and leaves the other segments alone.
C11_ShrinkAppendRestores ==
    \A i \in LiveSets :
        LET before == TranslateAll(World(i)) IN
        \A k \in AreaIdx(i) :
            \A E \in sets[i].areas[k].vpn_range.l .. sets[i].areas[k].vpn_range.r :
                Restored(i, k, E, before)

\* C11 amended: the same, for a segment that is the first of the segment list
\* to begin at s, which is the one shrink_to and append_to operate on.
C11_ShrinkAppendRestoresFirst ==
    \A i \in LiveSets :
        LET before == TranslateAll(World(i)) IN
        \A k \in AreaIdx(i) :
            FindArea(sets[i].areas, sets[i].areas[k].vpn_range.l) = k =>
                \A E \in sets[i].areas[k].vpn_range.l .. sets[i].areas[k].vpn_range.r :
                    Restored(i, k, E, before)

C11_Witness ==
    /\ ~panicked /\ last.op = "append_to" /\ last.ret
    /\ \E i \in ElfSets :
          /\ sets[i].elf = Elf_ordered
          /\ AreaVpns(sets[i].areas[2]) = {1, 2}
          /\ LET r1 == MemorySet_shrink_to(World(i), PAGE_SIZE, PAGE_SIZE + 1) IN
                /\ r1.ret /\ ~r1.w.panic
                /\ Mapping(MemorySet_translate(r1.w, 2)) = 0
                /\ Mapping(MemorySet_translate(World(i), 2)) # 0
                /\ \E r2 \in ShrinkThenAppend(i, 2, 2) :
                      Mapping(MemorySet_translate(r2.w, 2))
                          = Mapping(MemorySet_translate(World(i), 2))

(***************************************************************************)
(* The trampoline page.                                                    *)
(***************************************************************************)
\* C12: every address space built by new_kernel or from_elf maps the
\* trampoline vpn to the physical page of strampoline with exactly
\* Valid+Read+Execute, no segment of its list contains the trampoline vpn, and
\* this stays so over every shrink_to and append_to that completes.
C12_TrampolineFixed ==
    \A i \in LiveSets :
        /\ MemorySet_translate(World(i), VirtAddr_floor(TRAMPOLINE))
             = Some(PTE_new(VirtAddr_floor(strampoline), PTE_V + PTE_R + PTE_X))
        /\ \A k \in AreaIdx(i) :
              VirtAddr_floor(TRAMPOLINE) \notin AreaVpns(sets[i].areas[k])

C12_Witness ==
    /\ ~panicked /\ last.op \in {"shrink_to", "append_to"} /\ last.ret
    /\ \E i, j \in LiveSets :
          /\ sets[i].kind = "kernel" /\ sets[j].kind = "elf"
          /\ MemorySet_translate(World(i), VirtAddr_floor(TRAMPOLINE))
               = MemorySet_translate(World(j), VirtAddr_floor(TRAMPOLINE))
          /\ ValidAt(j, VirtAddr_floor(TRAMPOLINE))
          /\ \E k \in AreaIdx(j) :
                sets[j].areas[k].vpn_range.r = VirtAddr_floor(TRAMPOLINE)

(***************************************************************************)
(* The kernel address space.                                               *)
(***************************************************************************)
\* the pages of the region [start_va, end_va)
Region(start_va, end_va) == VirtAddr_floor(start_va) .. (VirtAddr_ceil(end_va) - 1)

\* C13: in the address space built by new_kernel every page of the code
\* region is readable and executable and not writable, every page of the
\* read-only data is not writable, every page of the data, the bss and the
\* rest of physical memory is not executable, and no page is both writable
\* and executable.
C13_KernelWriteXorExecute ==
    (last.op = "new_kernel" /\ ~panicked) =>
        LET i == last.set
            k == sets[i].elf
            pte(vpn) == MemorySet_translate(World(i), vpn).v
        IN  /\ \A vpn \in Region(k.stext, k.etext) :
                  /\ ValidAt(i, vpn)
                  /\ PTE_readable(pte(vpn)) /\ PTE_executable(pte(vpn))
                  /\ ~PTE_writable(pte(vpn))
            /\ \A vpn \in Region(k.srodata, k.erodata) :
                  ValidAt(i, vpn) /\ ~PTE_writable(pte(vpn))
            /\ \A vpn \in Region(k.sdata, k.edata)
                          \cup Region(k.sbss_with_stack, k.ebss)
                          \cup Region(k.ekernel, k.MEMORY_END) :
                  ValidAt(i, vpn) /\ ~PTE_executable(pte(vpn))
            /\ \A vpn \in Vpns :
                  ValidAt(i, vpn) => ~(PTE_writable(pte(vpn)) /\ PTE_executable(pte(vpn)))

\* the state remap_test inspects: the midpoints of code, read-only data and data
C13_Witness ==
    /\ last.op = "new_kernel" /\ ~panicked
    /\ LET i == last.set
           k == sets[i].elf
           mid_text == (k.stext + k.etext) \div 2
           mid_rodata == (k.srodata + k.erodata) \div 2
           mid_data == (k.sdata + k.edata) \div 2
       IN  /\ k.etext % PAGE_SIZE # 0
           /\ Cardinality(Region(k.stext, k.etext)) = 2
           /\ ~PTE_writable(MemorySet_translate(World(i), VirtAddr_floor(mid_text)).v)
           /\ ~PTE_writable(MemorySet_translate(World(i), VirtAddr_floor(mid_rodata)).v)
           /\ PTE_writable(MemorySet_translate(World(i), VirtAddr_floor(mid_data)).v)
           /\ ~PTE_executable(MemorySet_translate(World(i), VirtAddr_floor(mid_data)).v)

(***************************************************************************)
(* The value returned by shrink_to and append_to.                          *)
(***************************************************************************)
\* some segment of address space i begins at the page of start
StartMatches(i, start) ==
    \E k \in AreaIdx(i) : sets[i].areas[k].vpn_range.l = VirtAddr_floor(start)

\* what the two calls do in the current state, for every start and new_end
ReturnValue ==
    \A i \in LiveSets : \A start \in ArgVAs : \A new_end \in ArgVAs :
        LET r1 == MemorySet_shrink_to(World(i), start, new_end)
            r2s == MemorySet_append_to(World(i), start, new_end)
        IN  IF StartMatches(i, start)
            THEN /\ r1.w.panic \/ r1.ret
                 /\ \A r2 \in r2s : r2.w.panic \/ r2.ret
            ELSE /\ ~r1.ret /\ r1.w = World(i)
                 /\ \A r2 \in r2s : ~r2.ret /\ r2.w = World(i)

\* a call that returns false changes nothing
FalseIsNoOp ==
    (last'.op \in {"shrink_to", "append_to"} /\ ~last'.ret) =>
        /\ mem' = mem /\ free' = free /\ sets' = sets /\ ~panicked'
        /\ \E start \in ArgVAs : ~StartMatches(last'.set, start)

\* C14: shrink_to and append_to with a start at which no segment begins return
\* false and leave the page table, the segment list and the allocator as they
\* were; with a start at which a segment begins they return true.
C14_ReturnsWhetherFound ==
    /\ []ReturnValue
    /\ [][FalseIsNoOp]_vars

C14_Witness ==
    /\ ~panicked /\ last.op = "append_to" /\ ~last.ret
    /\ sets[last.set].kind = "elf"
    /\ ~StartMatches(last.set, PAGE_SIZE)
    /\ StartMatches(last.set, 0)
    /\ MemorySet_shrink_to(World(last.set), 0, 0).ret
    /\ ~ValidAt(last.set, 1)

\* C15 as stated: shrink_to or append_to with a start that matches no segment
\* is a fatal assertion.
C15_NotFoundIsFatal ==
    \A i \in LiveSets : \A start \in ArgVAs : \A new_end \in ArgVAs :
        ~StartMatches(i, start) =>
            /\ MemorySet_shrink_to(World(i), start, new_end).w.panic
            /\ \A r \in MemorySet_append_to(World(i), start, new_end) : r.w.panic

\* C15 amended: shrink_to or append_to with a start that matches no segment
\* is not fatal: the call returns false and the kernel runs on.
C15_NotFoundReturnsFalse ==
    /\ [](\A i \in LiveSets : \A start \in ArgVAs : \A new_end \in ArgVAs :
            ~StartMatches(i, start) =>
                /\ ~MemorySet_shrink_to(World(i), start, new_end).w.panic
                /\ ~MemorySet_shrink_to(World(i), start, new_end).ret
                /\ \A r \in MemorySet_append_to(World(i), start, new_end) :
                      ~r.w.panic /\ ~r.ret)
    /\ [][(last'.op \in {"shrink_to", "append_to"} /\ panicked')
            => \E start \in ArgVAs : StartMatches(last'.set, start)]_vars

C15_Witness ==
    /\ ~panicked /\ last.op = "shrink_to" /\ ~last.ret
    /\ sets[last.set].kind = "kernel"
    /\ ~StartMatches(last.set, PAGE_SIZE + 1)
    /\ steps = MaxOps

(***************************************************************************)
(* Release of the frames of an address space.                              *)
(***************************************************************************)
\* the FrameTrackers address space i holds, and the frames they stand for
Trackers(i) ==
    { <<0, n>> : n \in 1..Len(sets[i].page_table.frames) }
    \cup UNION { { <<k, v>> : v \in DOMAIN sets[i].areas[k].data_frames }
                 : k \in AreaIdx(i) }
TrackedFrame(i, t) ==
    IF t[1] = 0 THEN sets[i].page_table.frames[t[2]]
    ELSE sets[i].areas[t[1]].data_frames[t[2]]
Owned(i) == { TrackedFrame(i, t) : t \in Trackers(i) }
AllOwned == UNION { Owned(i) : i \in LiveSets }

\* every frame of the boot pool is free or held by exactly one FrameTracker
\* of exactly one address space
Conservation ==
    /\ free \cup AllOwned \in InitPools
    /\ free \cap AllOwned = {}
    /\ \A i \in LiveSets : Cardinality(Owned(i)) = Cardinality(Trackers(i))
    /\ \A i, j \in LiveSets : i # j => Owned(i) \cap Owned(j) = {}

\* the drop of address space i returns exactly the frames it holds, each once
DropStep ==
    last'.op = "drop" =>
        LET i == last'.set IN
        /\ ~sets'[i].live
        /\ free' = free \cup Owned(i)
        /\ Cardinality(free') = Cardinality(free) + Cardinality(Trackers(i))
        /\ (\A j \in SetIds : ~sets'[j].live) => free' \in InitPools

\* C16: an address space dropped after any insertions, shrink_to and
\* append_to returns every page-table node frame and every data frame it
\* holds to the pool, each exactly once; when no other address space is left
\* the pool is the one of boot, before the address space was created.
C16_DropReleasesAll ==
    /\ []Conservation
    /\ [][DropStep]_vars

C16_Witness ==
    /\ ~panicked /\ last.op = "drop" /\ steps = MaxOps
    /\ LiveSets = {}
    /\ free \in InitPools
    /\ \E f \in Frames \ {1} : mem[f] # ZeroNode

(***************************************************************************)
(* Tokens and views (checked under SpecPT).                                *)
(***************************************************************************)
\* the view built from the token of an owning table with root ppn
ViewOf(ppn) == PageTable_from_token(PageTable_token([root_ppn |-> ppn, frames |-> <<ppn>>]))

\* the view has the root of the table and owns nothing, and every vpn
\* translates through it as through the table
ViewAgrees ==
    /\ \A ppn \in 0..(Pow2(PPN_WIDTH) - 1) :
          ViewOf(ppn) = [root_ppn |-> ppn, frames |-> << >>]
    /\ LET view == PageTable_from_token(PageTable_token(sets[1].page_table)) IN
          /\ view.root_ppn = sets[1].page_table.root_ppn
          /\ view.frames = << >>
          /\ \A vpn \in Vpns :
                PageTable_translate([World(1) EXCEPT !.pt = view], vpn)
                    = PageTable_translate(World(1), vpn)

\* building, using and dropping a view changes neither memory, the pool nor
\* the table, and yields what the table yields
ViewStep ==
    last'.op = "view" =>
        /\ free' = free /\ mem' = mem /\ sets' = sets /\ panicked' = panicked
        /\ last'.res = PageTable_translate(World(1), last'.vpn)

\* C17: for an owning page table whose root ppn fits the ppn field,
\* from_token(token()) is a view with the same root and no owned frames;
\* translate through the view equals translate through the table for every
\* vpn, and creating and destroying the view allocates and frees nothing.
C17_TokenViewAgrees ==
    /\ []ViewAgrees
    /\ [][ViewStep]_vars

C17_Witness ==
    /\ last.op = "view" /\ ~panicked
    /\ last.res.some /\ PTE_is_valid(last.res.v)
    /\ PTE_ppn(last.res.v) = Pow2(PPN_WIDTH) - 1
    /\ \E vpn \in Vpns : PageTable_translate(World(1), vpn) = None
    /\ PageTable_token(sets[1].page_table) > Pow2(SATP_MODE_SHIFT)

(***************************************************************************)
(* Contents of frame-backed segments.                                      *)
(***************************************************************************)
\* the loadable headers of an image, in the order of the image; the k-th of
\* them makes segment k of the address space
LoadablePhs(elf) == SelectSeq(elf.phs, LAMBDA h : h.load)

\* the byte at virtual address va as read through address space i
ReadByte(i, va) ==
    mem[PTE_ppn(MemorySet_translate(World(i), VirtAddr_floor(va)).v)][va % PAGE_SIZE]

\* C18 as stated: after from_elf, for every loadable header with virtual
\* address v, file size f and memory size m, the byte read at v+j is the byte
\* of the image at offset+j for j < f and zero for f <= j < m, also when v is
\* not page-aligned.
C18_SegmentBytesAtVirtualAddress ==
    (last.op = "from_elf" /\ ~panicked) =>
        LET i == last.set
            phs == LoadablePhs(sets[i].elf)
        IN  \A k \in 1..Len(phs) : \A j \in 0..(phs[k].mem_size - 1) :
                /\ ValidAt(i, VirtAddr_floor(phs[k].va + j))
                /\ ReadByte(i, phs[k].va + j)
                     = IF j < phs[k].file_size
                       THEN sets[i].elf.input[phs[k].offset + j + 1]
                       ELSE 0

\* a buffer of L bytes, none of them zero
Buffer(L) == [j \in 1..L |-> 100 + j]

\* copy_data of Buffer(L) to segment k of address space i, in the current state
CopyTo(i, k, L) ==
    MapArea_copy_data([World(i) EXCEPT !.area = sets[i].areas[k]], Buffer(L))

\* byte j of the buffer is at offset j mod PAGE_SIZE of the frame of page
\* start + j div PAGE_SIZE, and every other cell of memory is as it was
PlacedExactly(i, k, L) ==
    LET a == sets[i].areas[k]
        w1 == CopyTo(i, k, L)
        frame(j) == a.data_frames[a.vpn_range.l + (j \div PAGE_SIZE)]
        written == { <<frame(j), j % PAGE_SIZE>> : j \in 0..(L - 1) }
    IN  /\ AreaVpns(a) # {} => ~w1.panic
        /\ \A j \in 0..(L - 1) : w1.mem[frame(j)][j % PAGE_SIZE] = Buffer(L)[j + 1]
        /\ \A f \in Frames : \A c \in 0..(PageCells - 1) :
              <<f, c>> \notin written => w1.mem[f][c] = mem[f][c]
        /\ w1.free = free /\ w1.pt = sets[i].page_table

\* C19: copy_data on a frame-backed, mapped segment with a buffer of length L
\* no larger than the segment puts buffer byte j at offset j mod PAGE_SIZE of
\* the frame that backs page start + j div PAGE_SIZE, writes nothing at or
\* beyond position L and touches no other frame.
C19_CopyDataPlacement ==
    \A i \in LiveSets : \A k \in AreaIdx(i) :
        sets[i].areas[k].map_type = "Framed" =>
            \A L \in 0..(Cardinality(AreaVpns(sets[i].areas[k])) * PAGE_SIZE) :
                PlacedExactly(i, k, L)

\* from_elf has copied a buffer that ends inside the second page of a segment
C19_Witness ==
    /\ ~panicked /\ last.op = "from_elf"
    /\ LET i == last.set
           a == sets[i].areas[2]
       IN  /\ sets[i].elf = Elf_ordered
           /\ AreaVpns(a) = {1, 2}
           /\ \A c \in 0..(PAGE_SIZE - 1) :
                 mem[a.data_frames[1]][c] = Input[PAGE_SIZE + c + 1]
           /\ mem[a.data_frames[2]][0] = Input[2 * PAGE_SIZE + 1]
           /\ mem[a.data_frames[2]][1] = 0
           /\ ~CopyTo(i, 2, PAGE_SIZE + 1).panic

\* C20: every page of every loadable segment mapped by from_elf has the User
\* bit set and has R, W and X set exactly as the read, write and execute
\* flags of its program header say.
C20_SegmentPermissions ==
    (last.op = "from_elf" /\ ~panicked) =>
        LET i == last.set
            phs == LoadablePhs(sets[i].elf)
        IN  \A k \in 1..Len(phs) :
                \A vpn \in Region(phs[k].va, phs[k].va + phs[k].mem_size) :
                    LET pte == MemorySet_translate(World(i), vpn).v IN
                    /\ ValidAt(i, vpn)
                    /\ BitAnd8(PTE_flags(pte), PTE_U) # 0
                    /\ PTE_readable(pte) = phs[k].r
                    /\ PTE_writable(pte) = phs[k].w
                    /\ PTE_executable(pte) = phs[k].x

C20_Witness ==
    /\ ~panicked /\ last.op = "from_elf"
    /\ sets[last.set].elf = Elf_descending_apart
    /\ PTE_flags(MemorySet_translate(World(last.set), 4).v) = PTE_V + PTE_W + PTE_U
    /\ PTE_flags(MemorySet_translate(World(last.set), 0).v)
         = PTE_V + PTE_R + PTE_X + PTE_U

\* the pages of the loadable segments, of the user stack and of the
\* placeholder above it, in an address space built by from_elf
UserPages(i) ==
    LET phs == LoadablePhs(sets[i].elf)
        n == NumLoad(sets[i].elf)
    IN  UNION { Region(phs[k].va, phs[k].va + phs[k].mem_size) : k \in 1..Len(phs) }
        \cup AreaVpns(sets[i].areas[n + 1])
        \cup AreaVpns(sets[i].areas[n + 2])

\* C25: in an address space built by from_elf a valid page has the User bit
\* set exactly when it is a page of a loadable segment, of the user stack or
\* of the placeholder above the stack; the trap-context page is valid with
\* Read and Write set and User clear; the trampoline page has User clear.
C25_UserBitOnlyOnUserPages ==
    (last.op = "from_elf" /\ ~panicked) =>
        LET i == last.set
            flags(vpn) == PTE_flags(MemorySet_translate(World(i), vpn).v)
            trap_cx == VirtAddr_floor(TRAP_CONTEXT_BASE)
            trampoline == VirtAddr_floor(TRAMPOLINE)
        IN  /\ \A vpn \in Vpns :
                   ValidAt(i, vpn) =>
                       (BitAnd8(flags(vpn), PTE_U) # 0 <=> vpn \in UserPages(i))
            /\ ValidAt(i, trap_cx)
            /\ BitAnd8(flags(trap_cx), PTE_R + PTE_W + PTE_U) = PTE_R + PTE_W
            /\ ValidAt(i, trampoline)
            /\ BitAnd8(flags(trampoline), PTE_U) = 0

\* from_elf has built an address space with two loadable segments, a stack,
\* the trap context and the trampoline
C25_Witness ==
    /\ ~panicked /\ last.op = "from_elf"
    /\ NumLoad(sets[last.set].elf) = 2
    /\ AreaVpns(StackArea(last.set)) # {}
    /\ ValidAt(last.set, VirtAddr_floor(TRAP_CONTEXT_BASE))
    /\ Cardinality({ vpn \in Vpns : ValidAt(last.set, vpn) })
          = Cardinality(UserPages(last.set)) + 2

(***************************************************************************)
(* Task manager (os/src/task/mod.rs) and the system-call entry             *)
(* (os/src/syscall/mod.rs).  The state t of the manager is the record tm:  *)
(* num_app, the task control blocks tasks, current_task, whether the       *)
(* UPSafeCell of TaskManagerInner is borrowed, the clock now, and where    *)
(* each task's kernel context stands (pc): "fresh" is the initial context  *)
(* that leads to user mode, "yielded" is a context saved by __switch       *)
(* inside sys_yield, "exited" one saved inside sys_exit, "user" is the     *)
(* task that runs.                                                         *)
(***************************************************************************)
MAX_APP_NUM == 3
MaxTime == 2
MaxCalls == 2

SYSCALL_WRITE == 64
SYSCALL_EXIT == 93
SYSCALL_YIELD == 124
SYSCALL_GET_TIME == 169
SYSCALL_TASK_INFO == 410

TaskIds == 0..(MAX_APP_NUM - 1)

\* the system calls whose counts the model keeps
CountedIds == {SYSCALL_GET_TIME, SYSCALL_YIELD}

TMPanic(t, msg) == [t EXCEPT !.panic = TRUE, !.msg = msg]

\* UPSafeCell::exclusive_access (RefCell::borrow_mut) and the drop of the guard
exclusive_access(t) ==
    IF t.borrowed THEN TMPanic(t, "already borrowed")
    ELSE [t EXCEPT !.borrowed = TRUE]
drop_inner(t) == [t EXCEPT !.borrowed = FALSE]

\* lazy_static TASK_MANAGER: every control block is Ready
TaskManager_init(num_app) ==
    [booted |-> TRUE, num_app |-> num_app,
     tasks |-> [i \in TaskIds |->
                  [status |-> "Ready", start_time |-> 0, time |-> 0,
                   syscall_times |-> [id \in CountedIds |-> 0],
                   pc |-> "fresh"]],
     current_task |-> 0, borrowed |-> FALSE, now |-> 0, started |-> FALSE,
     panic |-> FALSE, msg |-> "",
     switch_borrowed |-> FALSE,
     waited |-> [i \in TaskIds |-> 0],
     first_run |-> [i \in TaskIds |-> -1]]

get_time_ms(t) == t.now

\* update_task_info(syscall_id, called_time)
update_task_info(t, syscall_id, called_time) ==
    LET t1 == exclusive_access(t) IN
    IF t1.panic THEN t1
    ELSE LET current_idx == t1.current_task
             t2 == IF syscall_id \in CountedIds
                   THEN [t1 EXCEPT !.tasks[current_idx].syscall_times[syscall_id] = @ + 1]
                   ELSE t1
         IN  IF called_time < t2.tasks[current_idx].start_time
             THEN TMPanic(t2, "attempt to subtract with overflow")
             ELSE drop_inner([t2 EXCEPT !.tasks[current_idx].time =
                                 called_time - t2.tasks[current_idx].start_time])

\* get_current_task
get_current_task(t) ==
    LET t1 == exclusive_access(t) IN
    IF t1.panic THEN t1 ELSE drop_inner(t1)

\* the end of syscall(), after the sys_ function has returned: the time
\* handed to update_task_info is the time at this point
syscall_return(t, syscall_id) ==
    LET t1 == get_current_task(t) IN
    IF t1.panic THEN t1 ELSE update_task_info(t1, syscall_id, get_time_ms(t1))

\* __switch(from, to): the context of from is saved (its pc is why), the
\* context of to is restored and runs on: a fresh one goes to user mode, one
\* saved in sys_yield returns to syscall()
switch(t, from, why, to) ==
    LET t1 == [t EXCEPT !.tasks[from].pc = why, !.switch_borrowed = t.borrowed]
        resumed == t1.tasks[to].pc
        t2 == [t1 EXCEPT !.tasks[to].pc = "user"]
    IN  IF resumed = "yielded" THEN syscall_return(t2, SYSCALL_YIELD) ELSE t2

\* mutant of run_first_task: the guard is not dropped before __switch
TaskManager_run_first_task_nodrop(t) ==
    LET t1 == exclusive_access(t) IN
    IF t1.panic THEN t1
    ELSE LET t2 == [t1 EXCEPT !.tasks[0].status = "Running",
                              !.tasks[0].start_time = get_time_ms(t1)]
             t3 == [t2 EXCEPT !.started = TRUE, !.tasks[0].pc = "user",
                              !.switch_borrowed = t2.borrowed]
         IN  t3

TaskManager_run_first_task(t) ==
    LET t1 == exclusive_access(t) IN
    IF t1.panic THEN t1
    ELSE LET t2 == [t1 EXCEPT !.tasks[0].status = "Running",
                              !.tasks[0].start_time = get_time_ms(t1)]
             t3 == drop_inner(t2)
         IN  [t3 EXCEPT !.started = TRUE, !.tasks[0].pc = "user",
                        !.switch_borrowed = t3.borrowed]

\* mutant of mark_current_suspended: the status is left as it is
mark_current_suspended_keep(t) ==
    LET t1 == exclusive_access(t) IN
    IF t1.panic THEN t1 ELSE drop_inner(t1)

mark_current_suspended(t) ==
    LET t1 == exclusive_access(t) IN
    IF t1.panic THEN t1
    ELSE drop_inner([t1 EXCEPT !.tasks[t1.current_task].status = "Ready"])

\* mutant of mark_current_exited: the task is marked Ready
mark_current_exited_ready(t) ==
    LET t1 == exclusive_access(t) IN
    IF t1.panic THEN t1
    ELSE drop_inner([t1 EXCEPT !.tasks[t1.current_task].status = "Ready"])

mark_current_exited(t) ==
    LET t1 == exclusive_access(t) IN
    IF t1.panic THEN t1
    ELSE drop_inner([t1 EXCEPT !.tasks[t1.current_task].status = "Exited"])

\* (current + 1..current + num_app + 1).map(|id| id % num_app).find(Ready),
\* from position id of the range on
RECURSIVE FindReady(_, _, _)
FindReady(t, id, end) ==
    IF id >= end THEN None
    ELSE IF t.tasks[id % t.num_app].status = "Ready" THEN Some(id % t.num_app)
    ELSE FindReady(t, id + 1, end)

\* mutant of find_next_task: the search starts at the current task
find_next_task_fromcurrent(t) ==
    LET t1 == exclusive_access(t) IN
    IF t1.panic THEN [t |-> t1, next |-> None]
    ELSE [t |-> drop_inner(t1),
          next |-> FindReady(t1, t1.current_task, t1.current_task + t1.num_app)]

\* mutant of find_next_task: the search starts at task 0
find_next_task_lowest(t) ==
    LET t1 == exclusive_access(t) IN
    IF t1.panic THEN [t |-> t1, next |-> None]
    ELSE [t |-> drop_inner(t1), next |-> FindReady(t1, 0, t1.num_app)]

\* find_next_task: [t, next]
find_next_task(t) ==
    LET t1 == exclusive_access(t) IN
    IF t1.panic THEN [t |-> t1, next |-> None]
    ELSE [t |-> drop_inner(t1),
          next |-> FindReady(t1, t1.current_task + 1,
                             t1.current_task + t1.num_app + 1)]

\* run_next_task, called from sys_yield (why = "yielded") or sys_exit
\* (why = "exited")
TaskManager_run_next_task(t, why) ==
    LET f == find_next_task(t) IN
    IF f.t.panic THEN f.t
    ELSE IF ~f.next.some THEN TMPanic(f.t, "All applications completed!")
    ELSE LET t1 == exclusive_access(f.t) IN
         IF t1.panic THEN t1
         ELSE LET current == t1.current_task
                  next == f.next.v
                  t2 == [t1 EXCEPT !.tasks[next].status = "Running",
                                   !.tasks[next].time = get_time_ms(t1),
                                   !.current_task = next]
              IN  switch(drop_inner(t2), current, why, next)

suspend_current_and_run_next(t) ==
    LET t1 == mark_current_suspended(t) IN
    IF t1.panic THEN t1 ELSE TaskManager_run_next_task(t1, "yielded")

exit_current_and_run_next(t) ==
    LET t1 == mark_current_exited(t) IN
    IF t1.panic THEN t1 ELSE TaskManager_run_next_task(t1, "exited")

\* syscall(syscall_id, args) by the running task, up to the return to user
\* mode of whichever task runs then
syscall(t, syscall_id) ==
    IF syscall_id = SYSCALL_EXIT THEN exit_current_and_run_next(t)
    ELSE IF syscall_id = SYSCALL_YIELD THEN suspend_current_and_run_next(t)
    ELSE IF syscall_id \in {SYSCALL_WRITE, SYSCALL_GET_TIME, SYSCALL_TASK_INFO}
    THEN syscall_return(t, syscall_id)
    ELSE TMPanic(t, "Unsupported syscall_id")

(***************************************************************************)
(* The task manager as a state machine.  The page-table variables are not  *)
(* used; last names the operation, the task that called it and the task    *)
(* that runs after it.  tm.waited[i] counts the tasks other than i that    *)
(* have been switched in since task i last became Ready, and               *)
(* tm.first_run[i] is the time at which task i was first switched in.      *)
(***************************************************************************)
InitTM ==
    /\ mem = [p \in Frames |-> ZeroNode]
    /\ free = Frames
    /\ sets = [i \in SetIds |-> NoSet]
    /\ panicked = FALSE
    /\ steps = 0
    /\ last = [op |-> "boot", by |-> 0, id |-> 0]
    /\ \E num_app \in 0..MAX_APP_NUM : tm = TaskManager_init(num_app)

\* the count of switch-ins seen by every waiting task after a step that
\* switched task next in; by is the task that became Ready in the step, if any
Waited(old, new, by, next) ==
    [i \in TaskIds |->
        IF i = next \/ new.tasks[i].status # "Ready" THEN 0
        ELSE LET before == IF i = by THEN 0 ELSE old.waited[i]
             IN  IF before >= MAX_APP_NUM THEN before ELSE before + 1]

\* the time at which every task was first switched in (-1: not yet), after a
\* step that switched task next in
FirstRun(old, new, next) ==
    [i \in TaskIds |->
        IF i = next /\ old.first_run[i] = -1 THEN old.now ELSE old.first_run[i]]

\* the bookkeeping of a step that switched task next in
SwitchedIn(old, new, by, next) ==
    [new EXCEPT !.waited = Waited(old, new, by, next),
                !.first_run = FirstRun(old, new, next)]

CommitTM(t, op, by, id) ==
    /\ tm' = t
    /\ panicked' = t.panic
    /\ last' = [op |-> op, by |-> by, id |-> id]
    /\ UNCHANGED <<mem, free, sets, steps>>

\* the timer advances
TMTick ==
    /\ ~panicked
    /\ tm.now < MaxTime
    /\ tm' = [tm EXCEPT !.now = @ + 1]
    /\ last' = [op |-> "tick", by |-> tm.current_task, id |-> 0]
    /\ UNCHANGED <<mem, free, sets, panicked, steps>>

\* rust_main: task::run_first_task()
TMRunFirstTask ==
    /\ ~panicked
    /\ ~tm.started
    /\ LET t == TaskManager_run_first_task(tm)
       IN  CommitTM(IF t.panic THEN t
                    ELSE SwitchedIn(tm, t, MAX_APP_NUM, 0),
                    "run_first_task", 0, 0)

\* the running task makes a system call that returns to it
TMSyscall ==
    /\ ~panicked
    /\ tm.started
    /\ \E id \in {SYSCALL_WRITE, SYSCALL_GET_TIME, SYSCALL_TASK_INFO} :
          /\ id \in CountedIds =>
                tm.tasks[tm.current_task].syscall_times[id] < MaxCalls
          /\ CommitTM(syscall(tm, id), "syscall", tm.current_task, id)

\* the running task calls sys_yield
TMYield ==
    /\ ~panicked
    /\ tm.started
    /\ tm.tasks[tm.current_task].syscall_times[SYSCALL_YIELD] < MaxCalls
    /\ LET t == syscall(tm, SYSCALL_YIELD)
       IN  CommitTM(IF t.panic THEN t
                    ELSE SwitchedIn(tm, t, tm.current_task, t.current_task),
                    "yield", tm.current_task, SYSCALL_YIELD)

\* the running task calls sys_exit
TMExit ==
    /\ ~panicked
    /\ tm.started
    /\ LET t == syscall(tm, SYSCALL_EXIT)
       IN  CommitTM(IF t.panic THEN t
                    ELSE SwitchedIn(tm, t, MAX_APP_NUM, t.current_task),
                    "exit", tm.current_task, SYSCALL_EXIT)

\* the running task makes a system call the kernel does not know
TMUnsupported ==
    /\ ~panicked
    /\ tm.started
    /\ CommitTM(syscall(tm, 0), "unsupported", tm.current_task, 0)

NextTM ==
    \/ TMTick
    \/ TMRunFirstTask
    \/ TMSyscall
    \/ TMYield
    \/ TMExit
    \/ TMUnsupported

SpecTM == InitTM /\ [][NextTM]_vars

\* a task is running: TMExit, and so TMYield \/ TMExit, is enabled
TaskRuns == ~panicked /\ tm.started

\* the task manager when the kernel gets to run_first_task and every running
\* task goes on to sys_yield or sys_exit.  The last conjunct is weak fairness
\* of TMYield \/ TMExit, with TaskRuns written for ENABLED <<TMYield \/ TMExit>>_vars
SpecTMFair ==
    /\ InitTM
    /\ [][NextTM]_vars
    /\ WF_vars(TMRunFirstTask)
    /\ ([]<>(~TaskRuns) \/ []<><<TMYield \/ TMExit>>_vars)

TMTypeOK ==
    /\ tm.num_app \in 0..MAX_APP_NUM
    /\ tm.current_task \in TaskIds
    /\ \A i \in TaskIds : tm.tasks[i].status \in {"UnInit", "Ready", "Running", "Exited"}

(***************************************************************************)
(* C21: the exclusive-access guard is released before every __switch, in   *)
(* run_first_task and in run_next_task: the cell is not borrowed at the    *)
(* switch, it is not borrowed when a task is back in user mode, and no     *)
(* exclusive_access of a resumed task has found it borrowed.               *)
(***************************************************************************)
C21_GuardReleasedBeforeSwitch ==
    /\ ~tm.switch_borrowed
    /\ ~tm.borrowed
    /\ tm.msg # "already borrowed"

\* a task first started by run_next_task has made a system call, and task 0
\* has come back from a sys_yield through a saved context
C21_ResumedTaskBorrows ==
    /\ last.op = "syscall"
    /\ last.by # 0
    /\ ~panicked
    /\ tm.tasks[0].syscall_times[SYSCALL_YIELD] > 0

(***************************************************************************)
(* C22: after a system call by a task, the running time recorded for that  *)
(* task is the time of the call minus the time at which the task was first *)
(* switched in, for every task.                                            *)
(***************************************************************************)
C22_TimeSinceFirstDispatch ==
    (last.op = "syscall" /\ ~panicked) =>
        tm.tasks[last.by].time = tm.now - tm.first_run[last.by]

\* the same for task 0 alone, which run_first_task starts
C22_TaskZeroTimeSinceFirstDispatch ==
    (last.op = "syscall" /\ ~panicked /\ last.by = 0) =>
        tm.tasks[0].time = tm.now - tm.first_run[0]

(***************************************************************************)
(* Further properties of a single page table (checked under SpecPT).       *)
(***************************************************************************)

\* C23: PageTable::translate(vpn) allocates no frame and changes no entry; it
\* returns None exactly when the first- or the second-level entry on the path
\* of vpn is invalid, and otherwise a copy of the third-level entry.
C23_TranslateReadOnly ==
    [][ last'.op = "translate" =>
        /\ free' = free
        /\ mem' = mem
        /\ sets' = sets
        /\ ~panicked'
        /\ LET idxs == indexes(last'.vpn)
               e0 == mem[sets[1].page_table.root_ppn][idxs[1]]
               e1 == mem[PTE_ppn(e0)][idxs[2]]
           IN  IF ~PTE_is_valid(e0) \/ ~PTE_is_valid(e1)
               THEN last'.res = None
               ELSE last'.res = Some(mem[PTE_ppn(e1)][idxs[3]]) ]_vars

\* translate has returned None for a vpn whose first-level entry is valid and
\* whose second-level entry is not
C23_Witness ==
    /\ last.op = "translate"
    /\ last.res = None
    /\ PTE_is_valid(mem[sets[1].page_table.root_ppn][indexes(last.vpn)[1]])

\* the valid entries of the first- and second-level nodes of the table of
\* set 1: <<i>> in the root, <<i, j>> in the node the root's entry i points to
NonLeafEntries(m, root) ==
    LET top == { i \in 0..(Fanout - 1) : PTE_is_valid(m[root][i]) }
    IN  { <<i>> : i \in top } \cup
        UNION { { <<i, j>> : j \in { k \in 0..(Fanout - 1) :
                                 PTE_is_valid(m[PTE_ppn(m[root][i])][k]) } }
                : i \in top }

\* the number of nodes a create walk for vpn has to allocate
MissingNodes(m, root, vpn) ==
    LET idxs == indexes(vpn)
        e0 == m[root][idxs[1]]
    IN  IF ~PTE_is_valid(e0) THEN 2
        ELSE IF ~PTE_is_valid(m[PTE_ppn(e0)][idxs[2]]) THEN 1
        ELSE 0

\* C24: an owning page table owns 1 + (number of valid non-leaf entries)
\* frames after any sequence of map and unmap; the create walk of map
\* allocates one node for each invalid first- or second-level entry on the
\* path and none otherwise; unmap removes and frees no node.
C24_FramesMatchNodes ==
    /\ [](Len(sets[1].page_table.frames) =
            1 + Cardinality(NonLeafEntries(mem, sets[1].page_table.root_ppn)))
    /\ [][ LET pt == sets[1].page_table
               n == MissingNodes(mem, pt.root_ppn, last'.vpn)
           IN  /\ (last'.op = "map" /\ Cardinality(free) >= n) =>
                      /\ Len(sets'[1].page_table.frames) = Len(pt.frames) + n
                      /\ Cardinality(free') = Cardinality(free) - n
                      /\ SubSeq(sets'[1].page_table.frames, 1, Len(pt.frames))
                            = pt.frames
               /\ last'.op = "unmap" =>
                      /\ sets'[1].page_table = pt
                      /\ free' = free
                      /\ NonLeafEntries(mem', pt.root_ppn)
                            = NonLeafEntries(mem, pt.root_ppn) ]_vars

\* an unmap has returned on a table that owns the root, two nodes of a walk
\* that found no node and one node of a walk that found the first
C24_Witness ==
    /\ last.op = "unmap"
    /\ ~panicked
    /\ Len(sets[1].page_table.frames) = 4

(***************************************************************************)
(* Properties of the task manager (checked under SpecTM).                  *)
(***************************************************************************)

\* the tasks the scheduler looks at, and how far task i is behind the current
\* task in the cyclic order that starts right after it (the current task
\* itself is num_app - 1 behind)
Apps(t) == { i \in TaskIds : i < t.num_app }
CyclicDistance(t, i) ==
    (i + t.num_app - ((t.current_task + 1) % t.num_app)) % t.num_app

\* the states in which find_next_task is called: after mark_current_suspended
\* and after mark_current_exited; the state at hand is added
FindNextCalls == {tm, mark_current_suspended(tm), mark_current_exited(tm)}

\* C26: find_next_task returns the first Ready task in the cyclic order that
\* starts at current_task + 1 and wraps modulo num_app, the current task
\* coming last, and returns None exactly when none of the num_app tasks is
\* Ready.
C26_FirstReadyInCyclicOrder ==
    ~panicked => \A t \in FindNextCalls :
        LET next == find_next_task(t).next
            ready == { i \in Apps(t) : t.tasks[i].status = "Ready" }
        IN  /\ (~next.some) <=> (ready = {})
            /\ next.some =>
                  /\ next.v \in ready
                  /\ \A i \in ready : CyclicDistance(t, next.v) <= CyclicDistance(t, i)
            /\ find_next_task(t).t = t

\* task 2 of three has yielded; the search wrapped around, passed over the
\* exited task 0 and found task 1
C26_Witness ==
    /\ last.op = "yield" /\ last.by = 2 /\ ~panicked
    /\ tm.num_app = 3
    /\ tm.tasks[0].status = "Exited"
    /\ tm.current_task = 1

\* C27: once run_first_task has run, after any sequence of
\* suspend_current_and_run_next and exit_current_and_run_next at most one
\* task is Running, and it is tasks[current_task].
C27_OneRunningTask ==
    tm.started =>
        /\ \A i \in TaskIds : tm.tasks[i].status = "Running" => i = tm.current_task
        /\ ~panicked => tm.tasks[tm.current_task].status = "Running"

\* a task has yielded to another one after a third has exited
C27_Witness ==
    /\ last.op = "yield" /\ ~panicked
    /\ last.by # tm.current_task
    /\ tm.tasks[tm.current_task].status = "Running"
    /\ tm.tasks[last.by].status = "Ready"
    /\ \E i \in TaskIds : tm.tasks[i].status = "Exited"

\* C28: a task that is Exited is never Ready or Running again; when the
\* current task exits and no other of the num_app tasks is Ready, the
\* scheduler stops with the fatal error "All applications completed!", and
\* otherwise it goes on with a Ready task.
C28_ExitedIsFinal ==
    [][ /\ \A i \in TaskIds :
              tm.tasks[i].status = "Exited" => tm'.tasks[i].status = "Exited"
        /\ last'.op = "exit" =>
              /\ tm'.tasks[last'.by].status = "Exited"
              /\ IF \A i \in Apps(tm) \ {tm.current_task} : tm.tasks[i].status # "Ready"
                 THEN panicked' /\ tm'.msg = "All applications completed!"
                 ELSE /\ ~panicked'
                      /\ tm.tasks[tm'.current_task].status = "Ready"
                      /\ tm'.tasks[tm'.current_task].status = "Running" ]_vars

\* the last of three tasks has exited and the kernel has stopped
C28_Witness ==
    /\ last.op = "exit" /\ panicked
    /\ tm.num_app = 3
    /\ tm.msg = "All applications completed!"
    /\ \A i \in TaskIds : tm.tasks[i].status = "Exited"

(***************************************************************************)
(* Scheduling (checked under SpecTMFair).                                  *)
(***************************************************************************)

\* C29: if every running task eventually suspends or exits, every Ready task
\* with an index below num_app eventually becomes Running, and by then at
\* most num_app - 1 other tasks have been switched in since it became Ready.
\* A running task that makes an unsupported system call stops the kernel and
\* so neither suspends nor exits.
C29_ReadyTaskRuns ==
    /\ [](\A i \in Apps(tm) :
             tm.tasks[i].status = "Ready" => tm.waited[i] <= tm.num_app - 1)
    /\ \A i \in TaskIds :
          (i < tm.num_app /\ tm.tasks[i].status = "Ready")
              ~> (tm.tasks[i].status = "Running" \/ tm.msg = "Unsupported syscall_id")

\* task 1 of three has yielded, tasks 2 and 0 have been switched in since,
\* and task 1 is the next
C29_Witness ==
    /\ last.op = "yield" /\ last.by = 2 /\ ~panicked
    /\ tm.num_app = 3
    /\ tm.current_task = 0
    /\ tm.tasks[1].status = "Ready"
    /\ tm.tasks[1].syscall_times[SYSCALL_YIELD] = 0
    /\ tm.tasks[1].pc = "yielded"
    /\ tm.waited[1] = 2

====
